---- MODULE Spec2Model ----
(***************************************************************************)
(* A model of the PDF converter's batch handler: the two Streamlit entry   *)
(* points (app.py and streamlit_app_vercel.py), the processing facade      *)
(* (process_pdf_file, MinerUProcessor.process_pdf, call_mineru_api) and    *)
(* the basic extractor, with the temporary workspace they own.             *)
(*                                                                         *)
(* Strings of the source that are not ASCII are written as ASCII tags:     *)
(* the source's status messages are Chinese, and each tag names the        *)
(* message it stands for where it is defined.                              *)
(***************************************************************************)
EXTENDS Integers, Sequences, FiniteSets, TLC

\* ------------------------------------------------------------------ bounds
\* The largest batch, and the largest page count of one PDF.
MaxFiles == 2
MaxPages == 1
\* The longest Markdown text given to the text converter on its own.
MaxMarkdownLen == 6

\* ------------------------------------------------------------ fractions
\* The progress fraction is a Python float; it is kept here as an exact
\* rational n/d (d > 0), so that the sums and products of the source are
\* computed and compared without rounding.
Frac(n, d) == [n |-> n, d |-> d]
FracAdd(a, b) == [n |-> a.n * b.d + b.n * a.d, d |-> a.d * b.d]
FracMul(a, b) == [n |-> a.n * b.n, d |-> a.d * b.d]
FracLeq(a, b) == a.n * b.d <= b.n * a.d
FracEq(a, b) == a.n * b.d = b.n * a.d
FracZero == Frac(0, 1)
FracOne == Frac(1, 1)

\* ----------------------------------------------------------------- text
\* A text is a sequence of characters. str.strip() removes the leading and
\* trailing whitespace; the extractor only asks whether anything is left.
Whitespace == {" ", "\n"}
RECURSIVE LStrip(_)
LStrip(t) == IF t # <<>> /\ Head(t) \in Whitespace THEN LStrip(Tail(t)) ELSE t
RECURSIVE RStrip(_)
RStrip(t) ==
    IF t # <<>> /\ t[Len(t)] \in Whitespace THEN RStrip(SubSeq(t, 1, Len(t) - 1)) ELSE t
Strip(t) == RStrip(LStrip(t))

\* The texts a page of an uploaded PDF may hold: nothing, whitespace only,
\* and text with whitespace around it.
PageTexts == {<<" ", "\n">>, <<"a", "\n">>}

\* ---------------------------------------------------------------- files
\* An uploaded file: its name, whether fitz.open can open it, and the text
\* of each page. A corrupted file has no pages to speak of.
FileName(k) == [stem |-> IF k = 1 THEN "a" ELSE IF k = 2 THEN "b" ELSE "c", suffix |-> ".pdf"]
Stem(name) == name.stem

RECURSIVE SeqsUpTo(_, _)
SeqsUpTo(S, n) ==
    IF n = 0 THEN {<<>>}
    ELSE LET shorter == SeqsUpTo(S, n - 1)
         IN  shorter \cup {Append(s, x) : s \in {t \in shorter : Len(t) = n - 1}, x \in S}

Contents ==
    {[corrupt |-> TRUE, pages |-> <<>>]}
        \cup {[corrupt |-> FALSE, pages |-> p] : p \in SeqsUpTo(PageTexts, MaxPages)}

UploadedFile(k, c) == [name |-> FileName(k), corrupt |-> c.corrupt, pages |-> c.pages]

Batches ==
    UNION {{[k \in 1..n |-> UploadedFile(k, cs[k])] : cs \in [1..n -> Contents]} : n \in 1..MaxFiles}

\* ------------------------------------------------------- the environment
\* What the deployment decides before any batch starts.
VARIABLES
    entry,                 \* "app" (app.py) or "vercel" (streamlit_app_vercel.py)
    IS_VERCEL,             \* os.getenv('VERCEL') == '1'
    MINERU_AVAILABLE,      \* app.py: `from mineru_processor import MinerUProcessor` worked
    magic_pdf_importable,  \* `import magic_pdf` works (the advanced engine is installed)
    markdown_importable,   \* `import markdown` works (the Markdown-to-HTML library is installed)
    MINERU_API_URL,        \* the environment variable is set to a base URL
    processing_mode        \* streamlit_app_vercel.py: "basic" or "api"

\* What one batch run holds.
VARIABLES
    uploaded_files,        \* the uploads, in upload order
    total_size,            \* sum(f.size for f in uploaded_files) / 1024 / 1024, in MB
    pc,                    \* where main() is: "button", "rejected", "loop", "finally", "returned", "raised"
    temp_dir_exists,       \* the mkdtemp(prefix="mineru_") directory is on the filesystem
    i,                     \* the index of the next file of the loop
    results,               \* the list main() appends one result per file to
    calls,                 \* per processed file: what was called and what the outside world answered
    pending_exception,     \* an exception is propagating out of the try block
    display,               \* what main() rendered after the loop, and with which formats enabled
    cleanup_warning,       \* st.warning of cleanup_temp_dirs was shown (rmtree raised)
    cleanup_calls          \* how many times cleanup_temp_dirs was called

\* The Markdown-to-text converter called on its own, outside any batch.
VARIABLES
    markdown_given,        \* the markdown_content argument of the first call
    text_returned          \* what each call returned, each call given the previous return

\* _calculate_stats called on its own, on outputs holding markdown_given.
VARIABLES
    stats_returned         \* what the call returned, <<>> before it

\* The basic extractor called on its own on one document.
VARIABLES
    extractor,             \* whose process_pdf_basic: "app" or "vercel"
    document,              \* the PDF at pdf_path
    basic_returned         \* what the call returned or raised, <<>> before it

\* Files of one name processed one after another into the same directories.
VARIABLES
    scan_branch,           \* what process_pdf_file runs: "mineru", "demo" or "basic"
    input_file,            \* whose bytes are at pdf_path: 0 for no file, else the file's position
    output_tree,           \* the files under file_output_dir: path |-> content
    scan_results           \* per file processed: what was read, listed and returned

\* Two batches running at the same time on one machine.
VARIABLES
    fs_dirs,               \* the temporary directories that exist: name |-> the batch that made it
    fs_files,              \* the files under them: path |-> the batch that wrote it
    batch_pc,              \* per batch: where its run of main() is
    batch_dir,             \* per batch: the temp_dir create_temp_dirs returned
    batch_saved,           \* per batch: how many uploaded files it has processed
    accesses               \* every path a batch has read, written or deleted

envVars ==
    <<entry, IS_VERCEL, MINERU_AVAILABLE, magic_pdf_importable, markdown_importable,
      MINERU_API_URL, processing_mode>>
runVars ==
    <<uploaded_files, total_size, pc, temp_dir_exists, i, results, calls, pending_exception, display,
      cleanup_warning, cleanup_calls>>
textVars == <<markdown_given, text_returned>>
statsVars == <<stats_returned>>
basicVars == <<extractor, document, basic_returned>>
scanVars == <<scan_branch, input_file, output_tree, scan_results>>
concVars == <<fs_dirs, fs_files, batch_pc, batch_dir, batch_saved, accesses>>
\* Everything that is not part of a batch run.
aloneVars == <<textVars, statsVars, basicVars, scanVars, concVars>>
vars == <<envVars, runVars, aloneVars>>

\* A function called on its own has not been called, or is not part of the run.
TextIdle == markdown_given = <<>> /\ text_returned = <<>>
StatsIdle == stats_returned = <<>>
BasicIdle ==
    /\ extractor = "app"
    /\ document = [name |-> [stem |-> "a", suffix |-> ".pdf"], corrupt |-> TRUE, pages |-> <<>>]
    /\ basic_returned = <<>>
ScanIdle ==
    /\ scan_branch = "basic"
    /\ input_file = 0
    /\ output_tree = <<>>
    /\ scan_results = <<>>
ConcIdle ==
    /\ fs_dirs = <<>>
    /\ fs_files = <<>>
    /\ batch_pc = <<"idle", "idle">>
    /\ batch_dir = <<"none", "none">>
    /\ batch_saved = <<0, 0>>
    /\ accesses = {}

\* ------------------------------------------------------ progress and errors
\* One call of progress_callback(fraction, message). The messages:
\*   "failed"  stands for the source's "processing failed: {str(e)}" message,
\*   the others are the milestone messages of the branch that emits them.
Progress(n, d, tag) == [fraction |-> Frac(n, d), message |-> [tag |-> tag]]
\* A failure report that resets the bar to zero.
FailureProgress_at_zero(exc) == [fraction |-> Frac(0, 10), message |-> [tag |-> "failed", detail |-> exc]]
FailureProgress(exc) == [fraction |-> Frac(10, 10), message |-> [tag |-> "failed", detail |-> exc]]
IsFailureMessage(m) == m.tag = "failed"

\* A Python call either returns a value or raises; either way it has made
\* its progress calls, entered its branches ("ran", in call order) and sent
\* its HTTP requests ("posts").
Returned(value, progress, ran, posts) ==
    [raised |-> FALSE, ret |-> value, progress |-> progress, ran |-> ran, posts |-> posts]
Raised(exc, progress, ran, posts) ==
    [raised |-> TRUE, exc |-> exc, progress |-> progress, ran |-> ran, posts |-> posts]

\* `return None`
None == [none |-> TRUE]
IsNone(r) == "none" \in DOMAIN r

\* ------------------------------------------------------ the format renderer
\* re.sub works left to right on non-overlapping matches; "." does not match
\* a newline. The helpers below scan a text from position p.
StartsWith(s, p, pat) ==
    /\ p + Len(pat) - 1 <= Len(s)
    /\ SubSeq(s, p, p + Len(pat) - 1) = pat

SetMin(S) == CHOOSE x \in S : \A y \in S : x <= y

\* The element of a one-element set. {F(x) : x \in {e}} computes e once, however
\* often F uses x.
Only(S) == CHOOSE x \in S : TRUE

\* Where the lazy  open(.*?)close  that opens at p closes: the nearest close
\* after the opening with no newline in between; 0 when there is none.
CloseOf(s, p, open, close) ==
    LET start == p + Len(open)
        ends == {q \in start..Len(s) :
                    /\ StartsWith(s, q, close)
                    /\ \A j \in start..(q - 1) : s[j] # "\n"}
    IN  IF ends = {} THEN 0 ELSE SetMin(ends)

\* re.sub(open(.*?)close, r'\1' or '', s) from position p on.
RECURSIVE SubDelimited(_, _, _, _, _)
SubDelimited(s, p, open, close, keep) ==
    IF p > Len(s) THEN <<>>
    ELSE IF StartsWith(s, p, open) /\ CloseOf(s, p, open, close) # 0
    THEN LET q == CloseOf(s, p, open, close)
         IN  (IF keep THEN SubSeq(s, p + Len(open), q - 1) ELSE <<>>)
                \o SubDelimited(s, q + Len(close), open, close, keep)
    ELSE <<s[p]>> \o SubDelimited(s, p + 1, open, close, keep)

\* re.sub(r'\[(.*?)\]\(.*?\)', r'\1', s): the nearest "](" that a ")" follows
\* on the same line, then the nearest such ")".
LinkMid(s, p) ==
    LET mids == {q \in (p + 1)..Len(s) :
                    /\ StartsWith(s, q, <<"]", "(">>)
                    /\ \A j \in (p + 1)..(q - 1) : s[j] # "\n"
                    /\ CloseOf(s, q, <<"]", "(">>, <<")">>) # 0}
    IN  IF mids = {} THEN 0 ELSE SetMin(mids)

RECURSIVE SubLinks(_, _)
SubLinks(s, p) ==
    IF p > Len(s) THEN <<>>
    ELSE IF s[p] = "[" /\ LinkMid(s, p) # 0
    THEN LET q == LinkMid(s, p)
             r == CloseOf(s, q, <<"]", "(">>, <<")">>)
         IN  SubSeq(s, p + 1, q - 1) \o SubLinks(s, r + 1)
    ELSE <<s[p]>> \o SubLinks(s, p + 1)

\* The length of the run of characters of C that starts at p.
RECURSIVE RunLength(_, _, _)
RunLength(s, p, C) ==
    IF p > Len(s) \/ s[p] \notin C THEN 0 ELSE 1 + RunLength(s, p + 1, C)

\* re.sub(r'#{1,6}\s*', '', s): up to six "#", then all the whitespace after.
RECURSIVE SubHeadings(_, _)
SubHeadings(s, p) ==
    IF p > Len(s) THEN <<>>
    ELSE IF s[p] = "#"
    THEN LET run == RunLength(s, p, {"#"})
             hashes == IF run > 6 THEN 6 ELSE run
             spaces == RunLength(s, p + hashes, Whitespace)
         IN  SubHeadings(s, p + hashes + spaces)
    ELSE <<s[p]>> \o SubHeadings(s, p + 1)

\* re.sub(c{3,}, repl, s): a run of three or more c becomes repl.
RECURSIVE SubRuns(_, _, _, _)
SubRuns(s, p, c, repl) ==
    IF p > Len(s) THEN <<>>
    ELSE LET run == RunLength(s, p, {c})
         IN  IF run >= 3 THEN repl \o SubRuns(s, p + run, c, repl)
             ELSE IF run >= 1 THEN SubSeq(s, p, p + run - 1) \o SubRuns(s, p + run, c, repl)
             ELSE <<s[p]>> \o SubRuns(s, p + 1, c, repl)

\* The backquote character, which a TLA+ string cannot hold.
Backquote == "backquote"

\* MinerUProcessor._markdown_to_text: the substitutions in the source's order.
markdown_to_text(md) ==
    LET t1 == SubHeadings(md, 1)
        t2 == SubDelimited(t1, 1, <<"*", "*">>, <<"*", "*">>, TRUE)
        t3 == SubDelimited(t2, 1, <<"*">>, <<"*">>, TRUE)
        t4 == SubDelimited(t3, 1, <<Backquote>>, <<Backquote>>, TRUE)
        t5 == SubLinks(t4, 1)
        t6 == SubDelimited(t5, 1, <<"|">>, <<"|">>, FALSE)
        t7 == SubRuns(t6, 1, "-", <<>>)
        t8 == SubRuns(t7, 1, "\n", <<"\n", "\n">>)
    IN  Strip(t8)

\* ------------------------------------------------------ the basic extractor
\* The page loop both entry points share, line for line: a page whose text
\* is not blank adds "# <page> k\n\n{text}\n\n" to the Markdown and its text
\* to the text list. "page" stands for the heading's Chinese word.
PageBlock(k, page_text) ==
    <<"#", " ", "page", " ", ToString(k), "\n", "\n">> \o page_text \o <<"\n", "\n">>

\* A page loop that numbers the headings by the count of blocks so far.
RECURSIVE markdown_content_counts_blocks(_, _)
markdown_content_counts_blocks(pages, n) ==
    IF n = 0 THEN <<>>
    ELSE LET before == markdown_content_counts_blocks(pages, n - 1)
         IN  before \o (IF Strip(pages[n]) # <<>>
                        THEN <<PageBlock(Len(before) + 1, pages[n])>> ELSE <<>>)

RECURSIVE markdown_content(_, _)
markdown_content(pages, n) ==
    IF n = 0 THEN <<>>
    ELSE markdown_content(pages, n - 1)
            \o (IF Strip(pages[n]) # <<>> THEN <<PageBlock(n, pages[n])>> ELSE <<>>)

RECURSIVE text_content(_, _)
text_content(pages, n) ==
    IF n = 0 THEN <<>>
    ELSE text_content(pages, n - 1)
            \o (IF Strip(pages[n]) # <<>> THEN <<pages[n]>> ELSE <<>>)

\* sep.join(parts)
RECURSIVE Join(_, _)
Join(parts, sep) ==
    IF parts = <<>> THEN <<>>
    ELSE IF Len(parts) = 1 THEN parts[1]
    ELSE parts[1] \o sep \o Join(Tail(parts), sep)

\* s.replace(old, new) for a one-character old
RECURSIVE Replace(_, _, _)
Replace(s, old, new) ==
    IF s = <<>> THEN <<>>
    ELSE (IF Head(s) = old THEN <<new>> ELSE <<Head(s)>>) \o Replace(Tail(s), old, new)

full_markdown(pages) == Join(markdown_content(pages, Len(pages)), <<>>)
full_text(pages) == Join(text_content(pages, Len(pages)), <<"\n", "\n">>)

\* The fixed HTML template around the text, newlines turned into <br>.
basic_html(pages) ==
    <<"<!DOCTYPE html>", "<html>", "<head>", "</head>", "<body>", "<h1>", "</h1>", "<div>">>
        \o Replace(full_text(pages), "\n", "<br>")
        \o <<"</div>", "</body>", "</html>">>

\* Stats that count only the pages that gave text.
basic_stats_counts_text_pages(pages) ==
    [total_pages |-> Len(text_content(pages, Len(pages))),
     text_blocks |-> Len(text_content(pages, Len(pages))),
     tables |-> 0,
     formulas |-> 0]

\* The stats of a basic result.
basic_stats(pages) ==
    [total_pages |-> Len(pages),
     text_blocks |-> Len(SelectSeq(text_content(pages, Len(pages)), LAMBDA p : Strip(p) # <<>>)),
     tables |-> 0,
     formulas |-> 0]

\* The per-page progress calls: base + (page_num + 1) / total_pages * span.
page_progress(total_pages, base, span) ==
    [k \in 1..total_pages |->
        [fraction |-> FracAdd(base, FracMul(Frac(k, total_pages), span)),
         message |-> [tag |-> "page", page |-> k, total |-> total_pages]]]

\* A page whose doc.load_page or page.get_text raises, and the first such page
\* of a document (0 when every page can be read).
Unreadable == <<"unreadable">>
FirstUnreadable(pages) ==
    LET at == {k \in 1..Len(pages) : pages[k] = Unreadable}
    IN  IF at = {} THEN 0 ELSE SetMin(at)

\* A basic extractor that does not fail on a file fitz cannot open.
app_process_pdf_basic_opens_anything(f) ==
    Returned([success |-> TRUE, stats |-> basic_stats(<<>>), method |-> "basic"],
             <<Progress(10, 10, "done")>>, <<"basic">>, 0)

\* app.py process_pdf_basic: any exception, fitz.open's on a corrupted file
\* and a page's load_page or get_text among them, is raised again as Exception("basic processing failed: ...").
\* The JSON document is kept as the record json.dumps serialises, without
\* processed_at and processing_time (the clock) and file_size.
app_process_pdf_basic(f) ==
    IF f.corrupt
    THEN Raised(<<"basic_failed", "cannot_open">>, <<Progress(1, 10, "init_basic")>>, <<"basic">>, 0)
    ELSE IF FirstUnreadable(f.pages) # 0
    THEN Raised(<<"basic_failed", "page_unreadable">>,
                <<Progress(1, 10, "init_basic"), Progress(2, 10, "start_pages")>>
                    \o SubSeq(page_progress(Len(f.pages), Frac(2, 10), Frac(6, 10)),
                              1, FirstUnreadable(f.pages) - 1),
                <<"basic">>, 0)
    ELSE Returned(
            [success |-> TRUE,
             outputs |->
                [markdown_content |-> full_markdown(f.pages),
                 html_content |-> basic_html(f.pages),
                 text_content |-> full_text(f.pages),
                 json_content |->
                    [document |->
                        [title |-> Stem(f.name), pages |-> Len(f.pages),
                         method |-> "basic_extraction", processor |-> "PyMuPDF"],
                     content |-> [text |-> full_text(f.pages), markdown |-> full_markdown(f.pages)]]],
             stats |-> basic_stats(f.pages),
             method |-> "basic"],
            <<Progress(1, 10, "init_basic"), Progress(2, 10, "start_pages")>>
                \o page_progress(Len(f.pages), Frac(2, 10), Frac(6, 10))
                \o <<Progress(9, 10, "write_outputs"), Progress(10, 10, "done")>>,
            <<"basic">>, 0)

\* streamlit_app_vercel.py process_pdf_basic: the same extraction with other
\* milestones; an exception becomes a failed result with no traceback.
vercel_process_pdf_basic(f) ==
    IF f.corrupt
    THEN Returned(
            [success |-> FALSE, error |-> <<"process_error", "cannot_open">>],
            <<Progress(1, 10, "init"), Progress(3, 10, "read_pdf"),
              FailureProgress(<<"cannot_open">>)>>,
            <<"basic">>, 0)
    ELSE IF FirstUnreadable(f.pages) # 0
    THEN Returned(
            [success |-> FALSE, error |-> <<"process_error", "page_unreadable">>],
            <<Progress(1, 10, "init"), Progress(3, 10, "read_pdf"), Progress(4, 10, "start_pages")>>
                \o SubSeq(page_progress(Len(f.pages), Frac(4, 10), Frac(4, 10)),
                          1, FirstUnreadable(f.pages) - 1)
                \o <<FailureProgress(<<"page_unreadable">>)>>,
            <<"basic">>, 0)
    ELSE Returned(
            [success |-> TRUE,
             outputs |->
                [markdown_content |-> full_markdown(f.pages),
                 html_content |-> basic_html(f.pages),
                 text_content |-> full_text(f.pages),
                 json_content |->
                    [document |->
                        [title |-> Stem(f.name), pages |-> Len(f.pages),
                         method |-> "basic_extraction"],
                     content |-> [text |-> full_text(f.pages), markdown |-> full_markdown(f.pages)]]],
             stats |-> basic_stats(f.pages),
             method |-> "basic"],
            <<Progress(1, 10, "init"), Progress(3, 10, "read_pdf"), Progress(4, 10, "start_pages")>>
                \o page_progress(Len(f.pages), Frac(4, 10), Frac(4, 10))
                \o <<Progress(9, 10, "write_outputs"), Progress(10, 10, "done")>>,
            <<"basic">>, 0)

\* ---------------------------------------------- the MinerU processor's renderers
\* s.replace(old, new) for any old: non-overlapping, left to right.
RECURSIVE ReplaceSub(_, _, _, _)
ReplaceSub(s, p, old, new) ==
    IF p > Len(s) THEN <<>>
    ELSE IF StartsWith(s, p, old) THEN new \o ReplaceSub(s, p + Len(old), old, new)
    ELSE <<s[p]>> \o ReplaceSub(s, p + 1, old, new)

\* s.count(sub): non-overlapping occurrences, left to right.
RECURSIVE CountSub(_, _, _)
CountSub(s, p, sub) ==
    IF p > Len(s) THEN 0
    ELSE IF StartsWith(s, p, sub) THEN 1 + CountSub(s, p + Len(sub), sub)
    ELSE CountSub(s, p + 1, sub)

\* len([x for x in s.split('\n\n') if x.strip()]): cur is the segment so far.
RECURSIVE CountParagraphs(_, _, _)
CountParagraphs(s, p, cur) ==
    LET here == IF Strip(cur) # <<>> THEN 1 ELSE 0
    IN  IF p > Len(s) THEN here
        ELSE IF StartsWith(s, p, <<"\n", "\n">>) THEN here + CountParagraphs(s, p + 2, <<>>)
        ELSE CountParagraphs(s, p + 1, Append(cur, s[p]))

\* The template _markdown_to_html wraps the rendered body in.
HtmlTemplate(body) ==
    <<"\n", "<!DOCTYPE html>", "<html>", "<head>", "</head>", "<body>", "\n">>
        \o body \o <<"\n", "</body>", "</html>", "\n">>

\* A _markdown_to_html that returns the rendered body without the template.
markdown_to_html_bare(md) == IF markdown_importable THEN <<"rendered">> \o md ELSE md

\* MinerUProcessor._markdown_to_html. markdown.markdown is a library call:
\* its rendering is kept as the text behind a "rendered" mark. Without the
\* library the chain of str.replace calls of the fallback runs.
markdown_to_html(md) ==
    IF markdown_importable
    THEN HtmlTemplate(<<"rendered">> \o md)
    ELSE LET h0 == ReplaceSub(md, 1, <<"\n">>, <<"<br>">>)
             h1 == ReplaceSub(ReplaceSub(h0, 1, <<"#", " ">>, <<"<h1>">>), 1, <<"\n">>, <<"</h1>", "\n">>)
             h2 == ReplaceSub(ReplaceSub(h1, 1, <<"#", "#", " ">>, <<"<h2>">>), 1, <<"\n">>, <<"</h2>", "\n">>)
             h3 == ReplaceSub(ReplaceSub(h2, 1, <<"#", "#", "#", " ">>, <<"<h3>">>), 1, <<"\n">>, <<"</h3>", "\n">>)
         IN  HtmlTemplate(h3)

\* A _calculate_stats that counts every "$" as a formula.
calculate_stats_counts_every_dollar(outputs) ==
    LET md == IF "markdown_content" \in DOMAIN outputs THEN outputs.markdown_content ELSE <<>>
        table_count == CountSub(md, 1, <<"|">>)
        rules == CountSub(md, 1, <<"|", "-", "-", "-">>)
    IN  [total_pages |-> 1,
         text_blocks |-> CountParagraphs(md, 1, <<>>),
         tables |-> IF table_count > 0 THEN (IF rules # 0 THEN rules ELSE 1) ELSE 0,
         formulas |-> CountSub(md, 1, <<"$">>)]

\* MinerUProcessor._calculate_stats
calculate_stats(outputs) ==
    LET md == IF "markdown_content" \in DOMAIN outputs THEN outputs.markdown_content ELSE <<>>
        table_count == CountSub(md, 1, <<"|">>)
        rules == CountSub(md, 1, <<"|", "-", "-", "-">>)
    IN  [total_pages |-> 1,
         text_blocks |-> CountParagraphs(md, 1, <<>>),
         tables |-> IF table_count > 0 THEN (IF rules # 0 THEN rules ELSE 1) ELSE 0,
         formulas |-> CountSub(md, 1, <<"$">>) \div 2]

\* ------------------------------------------------------ the demo branch
\* The fixed document of _create_demo_result, shortened: its title line with
\* the file's stem, a bold item, the table with its |--- row, the three
\* formulas, the rule and the closing italic line.
demo_markdown(stem) ==
    <<"#", " ", stem, " ", "-", " ", "demo", "\n", "\n",
      "*", "*", "pages", "*", "*", "\n",
      "|", "h", "|", "\n", "|", "-", "-", "-", "|", "\n", "|", "r", "|", "\n",
      "$", "y", "$", "$", "a", "$", "$", "i", "$", "\n", "\n",
      "-", "-", "-", "\n", "*", "demo_mode", "*", "\n">>

\* A demo branch that opens the input and reports its page count and text.
create_demo_result_reads_input(f) ==
    Returned(
        [success |-> TRUE,
         outputs |->
            [markdown_content |-> demo_markdown(Stem(f.name)) \o full_text(f.pages),
             html_content |-> markdown_to_html(demo_markdown(Stem(f.name)) \o full_text(f.pages)),
             text_content |-> markdown_to_text(demo_markdown(Stem(f.name)) \o full_text(f.pages)),
             json_content |->
                [document |-> [title |-> Stem(f.name), type |-> "demo", pages |-> Len(f.pages)],
                 metadata |-> [method |-> "demo", version |-> "1.0.0"]]],
         stats |-> [total_pages |-> Len(f.pages), text_blocks |-> 4, tables |-> 1, formulas |-> 3],
         method |-> "demo"],
        <<Progress(3, 10, "demo_content"), Progress(6, 10, "write_outputs"),
          Progress(10, 10, "demo_done")>>,
        <<"demo">>, 0)

\* MinerUProcessor._create_demo_result: nothing of the input but its stem is
\* used. The JSON is kept as the record json.dumps serialises, without
\* processed_at.
create_demo_result(f) ==
    Returned(
        [success |-> TRUE,
         outputs |->
            [markdown_content |-> demo_markdown(Stem(f.name)),
             html_content |-> markdown_to_html(demo_markdown(Stem(f.name))),
             text_content |-> markdown_to_text(demo_markdown(Stem(f.name))),
             json_content |->
                [document |-> [title |-> Stem(f.name), type |-> "demo", pages |-> 1],
                 metadata |-> [method |-> "demo", version |-> "1.0.0"]],
             markdown |-> [stem |-> Stem(f.name), suffix |-> ".md"],
             html |-> [stem |-> Stem(f.name), suffix |-> ".html"],
             text |-> [stem |-> Stem(f.name), suffix |-> ".txt"],
             json |-> [stem |-> Stem(f.name), suffix |-> ".json"]],
         stats |-> [total_pages |-> 1, text_blocks |-> 4, tables |-> 1, formulas |-> 3],
         method |-> "demo"],
        <<Progress(3, 10, "demo_content"), Progress(6, 10, "write_outputs"),
          Progress(10, 10, "demo_done")>>,
        <<"demo">>, 0)

\* ------------------------------------------------- the advanced-engine branch
\* What the external engine (magic_pdf's do_parse) does with one file:
\*   "raises"   do_parse raises
\*   "md"       it writes a Markdown file and a JSON file
\*   "nothing"  it returns without writing either
\*   "badjson"  it writes a Markdown file and a JSON file json.load rejects
EngineOutcomes == {"raises", "md", "nothing", "badjson"}

\* The Markdown the engine writes for a file: its title and the pages' text.
engine_markdown(f) == <<"#", " ", Stem(f.name), "\n", "\n">> \o full_text(f.pages)

\* MinerUProcessor._process_mineru_output, for the files one engine run left
\* in the output directory.
process_mineru_output(f, eng) ==
    LET md == IF eng = "md"
              THEN [markdown_content |-> engine_markdown(f),
                    markdown |-> [stem |-> Stem(f.name), suffix |-> ".md"]]
              ELSE [markdown_content |-> <<"#", " ", "result", "\n", "\n", "no_markdown">>]
        js == IF eng = "md"
              THEN [json_content |-> [engine |-> Stem(f.name)],
                    json |-> [stem |-> Stem(f.name), suffix |-> ".json"]]
              ELSE [json_content |-> [message |-> "no_json"]]
    IN  Only({m @@ js @@
                [html_content |-> markdown_to_html(m.markdown_content),
                 html |-> [stem |-> Stem(f.name), suffix |-> ".html"],
                 text_content |-> markdown_to_text(m.markdown_content),
                 text |-> [stem |-> Stem(f.name), suffix |-> ".txt"]] : m \in {md}})

\* MinerUProcessor._process_with_mineru: every exception is raised again as
\* Exception("MinerU processing failed: ...").
process_with_mineru(f, eng) ==
    LET before == <<Progress(2, 10, "configure"), Progress(3, 10, "parse")>>
    IN  IF eng = "raises"
        THEN Raised(<<"mineru_failed", "do_parse">>, before, <<"mineru">>, 0)
        ELSE IF eng = "badjson"
        THEN Raised(<<"mineru_failed", "json_load">>,
                    before \o <<Progress(8, 10, "write_outputs")>>, <<"mineru">>, 0)
        ELSE Only({Returned(
                    [success |-> TRUE,
                     outputs |-> outputs,
                     stats |-> calculate_stats(outputs),
                     method |-> "mineru"],
                    before \o <<Progress(8, 10, "write_outputs"), Progress(10, 10, "done")>>,
                    <<"mineru">>, 0) : outputs \in {process_mineru_output(f, eng)}})

\* MinerUProcessor.setup_mineru: self.mineru_available
mineru_available == magic_pdf_importable

\* The failed result of process_pdf and of app.py's process_pdf_file.
FailedResult(exc) ==
    [success |-> FALSE, error |-> <<"process_error">> \o exc, traceback |-> "traceback"]

\* A process_pdf that downgrades to the demo branch when the engine raises.
process_pdf_downgrades(f, eng) ==
    Only({IF call.raised
          THEN Only({Returned(demo.ret, call.progress \o demo.progress, call.ran \o demo.ran, 0) :
                     demo \in {create_demo_result(f)}})
          ELSE call :
          call \in {IF ~mineru_available
                    THEN create_demo_result(f)
                    ELSE process_with_mineru(f, eng)}})

\* A process_pdf that tests the availability flag the wrong way round.
process_pdf_flag_inverted(f, eng) ==
    Only({IF call.raised
          THEN Returned(FailedResult(call.exc), call.progress \o <<FailureProgress(call.exc)>>,
                        call.ran, call.posts)
          ELSE call :
          call \in {IF mineru_available
                    THEN create_demo_result(f)
                    ELSE process_with_mineru(f, eng)}})

\* MinerUProcessor.process_pdf: the demo branch when the engine could not be
\* imported, the engine otherwise; an exception of either becomes a failed
\* result after a last progress call of 1.0.
process_pdf(f, eng) ==
    LET first == <<Progress(1, 10, "init")>>
    IN  Only({IF call.raised
              THEN Returned(FailedResult(call.exc),
                            first \o call.progress \o <<FailureProgress(call.exc)>>,
                            call.ran, call.posts)
              ELSE Returned(call.ret, first \o call.progress, call.ran, call.posts) :
              call \in {IF ~mineru_available
                        THEN create_demo_result(f)
                        ELSE process_with_mineru(f, eng)}})

\* app.py process_pdf_file
process_pdf_file(f, eng) ==
    Only({IF call.raised
          THEN Returned(FailedResult(call.exc),
                        call.progress \o <<FailureProgress(call.exc)>>, call.ran, call.posts)
          ELSE call :
          call \in {IF MINERU_AVAILABLE THEN process_pdf(f, eng) ELSE app_process_pdf_basic(f)}})

\* ------------------------------------------------------ the remote API branch
\* What the remote service answers to POST {MINERU_API_URL}/process: a
\* response with a status code and a body, or no response (the transport
\* raised: refused, timed out after 300 s, ...).
ApiResponses ==
    {[transport_error |-> FALSE, status_code |-> 200, body |-> "success"],
     [transport_error |-> FALSE, status_code |-> 200, body |-> "failure"],
     [transport_error |-> FALSE, status_code |-> 200, body |-> "not_json"],
     [transport_error |-> FALSE, status_code |-> 500, body |-> "not_json"],
     [transport_error |-> TRUE, status_code |-> 0, body |-> "none"]}

\* response.json() of a 200 answer: the remote service's ProcessingResult.
response_json(f, body) ==
    IF body = "success"
    THEN [success |-> TRUE,
          outputs |-> [markdown_content |-> engine_markdown(f)],
          stats |-> [total_pages |-> Len(f.pages), text_blocks |-> 0, tables |-> 0, formulas |-> 0],
          method |-> "mineru"]
    ELSE [success |-> FALSE, error |-> <<"process_error", "remote">>]

\* A call_mineru_api that reports a status other than 200 as a failed result.
call_mineru_api_hard_error(f, api) ==
    IF ~MINERU_API_URL
    THEN Returned(None, <<>>, <<>>, 0)
    ELSE IF ~api.transport_error /\ api.status_code = 200 /\ api.body # "not_json"
    THEN Returned(response_json(f, api.body),
                  <<Progress(2, 10, "connect_api"), Progress(10, 10, "api_done")>>, <<"api">>, 1)
    ELSE IF api.transport_error
    THEN Returned(None, <<Progress(2, 10, "connect_api")>>, <<"api">>, 1)
    ELSE Returned([success |-> FALSE, error |-> <<"process_error", "api_status">>],
                  <<Progress(2, 10, "connect_api")>>, <<"api">>, 1)

\* streamlit_app_vercel.py call_mineru_api: None unless the service answered
\* 200 with a JSON body.
call_mineru_api(f, api) ==
    IF ~MINERU_API_URL
    THEN Returned(None, <<>>, <<>>, 0)
    ELSE LET connect == <<Progress(2, 10, "connect_api")>>
         IN  IF api.transport_error
             THEN Returned(None, connect, <<"api">>, 1)
             ELSE IF api.status_code = 200
             THEN IF api.body = "not_json"
                  THEN Returned(None, connect, <<"api">>, 1)
                  ELSE Returned(response_json(f, api.body),
                                connect \o <<Progress(10, 10, "api_done")>>, <<"api">>, 1)
             ELSE Returned(None, connect, <<"api">>, 1)

\* A main() whose fallback keeps the basic result's content but not its stats.
vercel_process_file_drops_stats(f, api) ==
    IF processing_mode = "api"
    THEN Only({IF IsNone(remote.ret)
               THEN Only({[raised |-> FALSE,
                           ret |-> [k \in DOMAIN basic.ret \ {"stats"} |-> basic.ret[k]],
                           progress |-> remote.progress \o basic.progress,
                           ran |-> remote.ran \o basic.ran,
                           posts |-> remote.posts + basic.posts,
                           api_none |-> TRUE] : basic \in {vercel_process_pdf_basic(f)}})
               ELSE remote @@ [api_none |-> FALSE] :
               remote \in {call_mineru_api(f, api)}})
    ELSE vercel_process_pdf_basic(f) @@ [api_none |-> FALSE]

\* A main() that tries the remote API whatever the processing mode.
vercel_process_file_ignores_mode(f, api) ==
    Only({IF IsNone(remote.ret)
          THEN Only({[raised |-> basic.raised, ret |-> basic.ret,
                      progress |-> remote.progress \o basic.progress,
                      ran |-> remote.ran \o basic.ran,
                      posts |-> remote.posts + basic.posts,
                      api_none |-> TRUE] : basic \in {vercel_process_pdf_basic(f)}})
          ELSE remote @@ [api_none |-> FALSE] :
          remote \in {call_mineru_api(f, api)}})

\* streamlit_app_vercel.py main, the processing of one file: the remote API
\* in "api" mode, the basic extractor when that returns None or in "basic"
\* mode.
vercel_process_file(f, api) ==
    IF processing_mode = "api"
    THEN Only({IF IsNone(remote.ret)
               THEN Only({[raised |-> basic.raised, ret |-> basic.ret,
                           progress |-> remote.progress \o basic.progress,
                           ran |-> remote.ran \o basic.ran,
                           posts |-> remote.posts + basic.posts,
                           api_none |-> TRUE] : basic \in {vercel_process_pdf_basic(f)}})
               ELSE remote @@ [api_none |-> FALSE] :
               remote \in {call_mineru_api(f, api)}})
    ELSE vercel_process_pdf_basic(f) @@ [api_none |-> FALSE]

\* ------------------------------------------------------ the result display
\* The output-format checkboxes of the sidebar, in the dict's order; JSON is
\* off by default.
FormatOrder == <<"markdown", "html", "text", "json">>
OutputFormatChoices == {{"markdown", "html", "text"}, {"markdown", "html", "text", "json"}}
file_ext(format_name) ==
    CASE format_name = "markdown" -> "md"
      [] format_name = "html" -> "html"
      [] format_name = "text" -> "txt"
      [] format_name = "json" -> "json"
content_key(format_name) ==
    CASE format_name = "markdown" -> "markdown_content"
      [] format_name = "html" -> "html_content"
      [] format_name = "text" -> "text_content"
      [] format_name = "json" -> "json_content"

\* Nothing rendered yet.
NothingDisplayed ==
    [formats |-> {}, success_count |-> 0, stats |-> {}, previews |-> {}, downloads |-> <<>>,
     failures |-> {}]

\* successful_results, as the positions of the successful results in results.
RECURSIVE successful_results(_, _)
successful_results(rs, n) ==
    IF n = 0 THEN <<>>
    ELSE successful_results(rs, n - 1) \o (IF rs[n].success THEN <<n>> ELSE <<>>)

\* The preview tabs: app.py has a JSON tab, streamlit_app_vercel.py has none.
PreviewFormats == IF entry = "app" THEN {"markdown", "html", "text", "json"}
                  ELSE {"markdown", "html", "text"}

\* The st.download_button calls of main(): made only when exactly one result
\* succeeded, one per enabled format whose content is in the result's
\* outputs, each named after the stem of uploaded_files[0].
RECURSIVE download_buttons(_, _, _, _)
download_buttons(formats, ups, rs, k) ==
    IF k = 0 THEN <<>>
    ELSE download_buttons(formats, ups, rs, k - 1)
            \o (LET ok == successful_results(rs, Len(rs))
                IN  IF /\ Len(ok) = 1
                       /\ FormatOrder[k] \in formats
                       /\ content_key(FormatOrder[k]) \in DOMAIN rs[ok[1]].outputs
                    THEN <<[file_name |-> [stem |-> Stem(ups[1].name), ext |-> file_ext(FormatOrder[k])],
                            result |-> ok[1],
                            content |-> content_key(FormatOrder[k])]>>
                    ELSE <<>>)

\* Everything main() renders after the loop with the given checkboxes: the
\* count of successes, the stats and the preview tabs of the one successful
\* result (nothing when more than one succeeded), the download buttons, and
\* an st.error line per failed result.
rendered(formats, ups, rs) ==
    LET ok == successful_results(rs, Len(rs))
    IN  [formats |-> formats,
         success_count |-> Len(ok),
         stats |-> IF Len(ok) = 1 /\ "stats" \in DOMAIN rs[ok[1]] THEN {ok[1]} ELSE {},
         previews |->
            IF Len(ok) = 1
            THEN {[result |-> ok[1], format |-> f] :
                    f \in {g \in formats \cap PreviewFormats :
                                content_key(g) \in DOMAIN rs[ok[1]].outputs}}
            ELSE {},
         downloads |-> download_buttons(formats, ups, rs, Len(FormatOrder)),
         failures |-> {j \in 1..Len(rs) : ~rs[j].success}]

\* The total size of a batch in MB: one size under the deployment's ceiling
\* and one over it; 60 MB is over the ceiling on Vercel and under it elsewhere.
TotalSizes(is_vercel) == IF is_vercel THEN {40, 60} ELSE {60, 240}

\* app.py: max_size = 50 if IS_VERCEL else 200
max_size == IF IS_VERCEL THEN 50 ELSE 200

\* app.py main checks the total size on every run of the script, before the
\* button is looked at; streamlit_app_vercel.py has no such check.
size_rejected == entry = "app" /\ total_size > max_size

\* The selectbox of the sidebar: Vercel forces the basic mode.
ProcessingModes(is_vercel) == IF is_vercel THEN {"basic"} ELSE {"basic", "api"}

\* ------------------------------------------------------ the batch handler
\* The start: a deployment, and a batch uploaded with the button not yet
\* pressed. Settings the entry point never reads are left at one value.
Init ==
    /\ entry \in {"app", "vercel"}
    /\ IS_VERCEL \in BOOLEAN
    /\ MINERU_AVAILABLE \in (IF entry = "app" THEN BOOLEAN ELSE {FALSE})
    /\ magic_pdf_importable \in (IF entry = "app" THEN BOOLEAN ELSE {FALSE})
    /\ markdown_importable \in (IF entry = "app" /\ MINERU_AVAILABLE THEN BOOLEAN ELSE {TRUE})
    /\ MINERU_API_URL \in (IF entry = "vercel" THEN BOOLEAN ELSE {FALSE})
    /\ processing_mode \in (IF entry = "vercel" THEN ProcessingModes(IS_VERCEL) ELSE {"basic"})
    /\ uploaded_files \in Batches
    /\ total_size \in TotalSizes(IS_VERCEL)
    /\ pc = "button"
    /\ temp_dir_exists = FALSE
    /\ i = 1
    /\ results = <<>>
    /\ calls = <<>>
    /\ pending_exception = FALSE
    /\ display = NothingDisplayed
    /\ cleanup_warning = FALSE
    /\ cleanup_calls = 0
    /\ TextIdle /\ StatsIdle /\ BasicIdle /\ ScanIdle /\ ConcIdle

\* app.py main: st.error and return for a batch over the ceiling.
RejectOversize ==
    /\ pc = "button"
    /\ size_rejected
    /\ pc' = "rejected"
    /\ UNCHANGED <<envVars, aloneVars, uploaded_files, total_size, temp_dir_exists, i, results, calls,
                   pending_exception, display, cleanup_warning, cleanup_calls>>

\* create_temp_dirs, called before the try block: mkdtemp, then two makedirs.
\* A failure of mkdtemp leaves nothing; a failure of makedirs leaves the
\* parent directory, and no finally block runs.
CreateTempDirs ==
    /\ pc = "button"
    /\ ~size_rejected
    /\ \E outcome \in {"ok", "mkdtemp_raises", "makedirs_raises"} :
        /\ temp_dir_exists' = (outcome # "mkdtemp_raises")
        /\ pc' = IF outcome = "ok" THEN "loop" ELSE "raised"
    /\ UNCHANGED <<envVars, aloneVars, uploaded_files, total_size, i, results, calls, pending_exception, display,
                   cleanup_warning, cleanup_calls>>

\* What the outside world may answer while one file is processed.
EngineChoices ==
    IF entry = "app" /\ MINERU_AVAILABLE /\ mineru_available THEN EngineOutcomes ELSE {"unused"}
ApiChoices ==
    IF entry = "vercel" /\ processing_mode = "api" /\ MINERU_API_URL
    THEN ApiResponses
    ELSE {[transport_error |-> TRUE, status_code |-> 0, body |-> "unused"]}

\* The processing call of the loop body, by entry point.
process_file(f, eng, api) ==
    IF entry = "app"
    THEN process_pdf_file(f, eng) @@ [api_none |-> FALSE]
    ELSE vercel_process_file(f, api)

\* A loop body that puts each new result in front of the earlier ones.
append_result_in_front(rs, f, ret) == <<("file_name" :> f.name) @@ ret>> \o rs

\* result['file_name'] = uploaded_file.name; results.append(result)
append_result(rs, f, ret) == Append(rs, ("file_name" :> f.name) @@ ret)

\* One iteration of the loop of main(): the upload is written to the input
\* directory (app.py also makes the file's output directory), the file is
\* processed, and its result is appended with the file's name. An exception
\* of the writing, or one the processing call lets through, leaves the loop.
ProcessFile ==
    /\ pc = "loop"
    /\ i <= Len(uploaded_files)
    /\ \E saved \in BOOLEAN, eng \in EngineChoices, api \in ApiChoices :
        \E f \in {uploaded_files[i]} : \E call \in {process_file(f, eng, api)} :
            IF ~saved
            THEN /\ pc' = "finally"
                 /\ pending_exception' = TRUE
                 /\ UNCHANGED <<i, results, calls>>
            ELSE /\ calls' = Append(calls,
                        [progress |-> call.progress, ran |-> call.ran, posts |-> call.posts,
                         api_none |-> call.api_none, eng |-> eng, api |-> api])
                 /\ IF call.raised
                    THEN /\ pc' = "finally"
                         /\ pending_exception' = TRUE
                         /\ UNCHANGED <<i, results>>
                    ELSE /\ results' = append_result(results, f, call.ret)
                         /\ i' = i + 1
                         /\ UNCHANGED <<pc, pending_exception>>
    /\ UNCHANGED <<envVars, aloneVars, uploaded_files, total_size, temp_dir_exists, display,
                   cleanup_warning, cleanup_calls>>

\* After the loop main() renders the results. A Streamlit call may raise:
\* the first one then, with nothing rendered.
ShowResults ==
    /\ pc = "loop"
    /\ i > Len(uploaded_files)
    /\ \E shown \in BOOLEAN :
        /\ pending_exception' = ~shown
        /\ IF shown
           THEN \E formats \in OutputFormatChoices :
                    display' = rendered(formats, uploaded_files, results)
           ELSE display' = display
        /\ pc' = "finally"
    /\ UNCHANGED <<envVars, aloneVars, uploaded_files, total_size, temp_dir_exists, i, results, calls,
                   cleanup_warning, cleanup_calls>>

\* A cleanup_temp_dirs that never calls shutil.rmtree.
cleanup_temp_dirs_keeps(exists, rmtree_ok) == [exists |-> exists, warning |-> FALSE]

\* cleanup_temp_dirs(temp_dir): whether the directory exists afterwards, and
\* whether the warning was shown, given that shutil.rmtree succeeds or raises.
cleanup_temp_dirs(exists, rmtree_ok) ==
    IF exists
    THEN IF rmtree_ok THEN [exists |-> FALSE, warning |-> FALSE]
         ELSE [exists |-> TRUE, warning |-> TRUE]
    ELSE [exists |-> FALSE, warning |-> FALSE]

\* The finally block of main().
Finally ==
    /\ pc = "finally"
    /\ \E rmtree_ok \in BOOLEAN :
        LET after == cleanup_temp_dirs(temp_dir_exists, rmtree_ok)
        IN  /\ temp_dir_exists' = after.exists
            /\ cleanup_warning' = after.warning
    /\ cleanup_calls' = cleanup_calls + 1
    /\ pc' = IF pending_exception THEN "raised" ELSE "returned"
    /\ UNCHANGED <<envVars, aloneVars, uploaded_files, total_size, i, results, calls, pending_exception,
                   display>>

Next == RejectOversize \/ CreateTempDirs \/ ProcessFile \/ ShowResults \/ Finally

Spec == Init /\ [][Next]_vars

\* ------------------------------------------------ the text converter alone
\* _markdown_to_text is a method without state: it is called here on every
\* text over the characters of link and table syntax up to MaxMarkdownLen,
\* and then again on what it returned. No batch runs meanwhile.
MarkdownAlphabet == {"[", "]", "(", ")", "|", "a"}
MarkdownTexts == SeqsUpTo(MarkdownAlphabet, MaxMarkdownLen)

\* No batch is running: the deployment is at rest and the handler idle.
NoBatch ==
    /\ entry = "app"
    /\ IS_VERCEL = FALSE
    /\ MINERU_AVAILABLE = TRUE
    /\ magic_pdf_importable = FALSE
    /\ markdown_importable = FALSE
    /\ MINERU_API_URL = FALSE
    /\ processing_mode = "basic"
    /\ uploaded_files = <<>>
    /\ total_size = 0
    /\ pc = "idle"
    /\ temp_dir_exists = FALSE
    /\ i = 1
    /\ results = <<>>
    /\ calls = <<>>
    /\ pending_exception = FALSE
    /\ display = NothingDisplayed
    /\ cleanup_warning = FALSE
    /\ cleanup_calls = 0

TextInit ==
    /\ NoBatch /\ StatsIdle /\ BasicIdle /\ ScanIdle /\ ConcIdle
    /\ markdown_given \in MarkdownTexts
    /\ text_returned = <<>>

\* One call of _markdown_to_text: on the given Markdown first, then on the
\* text the call before returned.
ConvertToText ==
    /\ Len(text_returned) < 2
    /\ text_returned' = Append(text_returned,
            markdown_to_text(IF text_returned = <<>> THEN markdown_given
                             ELSE text_returned[Len(text_returned)]))
    /\ UNCHANGED <<envVars, runVars, statsVars, basicVars, scanVars, concVars, markdown_given>>

TextNext == ConvertToText

TextSpec == TextInit /\ [][TextNext]_vars

\* The same converter on texts of letters, heading marks, spaces and line
\* ends, long enough to hold three empty lines between two letters.
MaxBlankLinesLen == 7
BlankLinesAlphabet == {"a", "#", " ", "\n"}
BlankLinesTexts == SeqsUpTo(BlankLinesAlphabet, MaxBlankLinesLen)

BlankLinesInit ==
    /\ NoBatch /\ StatsIdle /\ BasicIdle /\ ScanIdle /\ ConcIdle
    /\ markdown_given \in BlankLinesTexts
    /\ text_returned = <<>>

BlankLinesSpec == BlankLinesInit /\ [][TextNext]_vars

\* ------------------------------------------------ the stats heuristic alone
\* _calculate_stats is a method without state: it is called here on outputs
\* whose Markdown is any text over the characters it counts, a letter and
\* the line end, up to MaxMarkdownLen.
StatsAlphabet == {"$", "|", "-", "\n", "a"}
StatsTexts == SeqsUpTo(StatsAlphabet, MaxMarkdownLen)

StatsInit ==
    /\ NoBatch /\ BasicIdle /\ ScanIdle /\ ConcIdle
    /\ markdown_given \in StatsTexts
    /\ text_returned = <<>>
    /\ stats_returned = <<>>

\* stats = self._calculate_stats(outputs), outputs as _process_mineru_output
\* returns them for the given Markdown.
CalculateStats ==
    /\ stats_returned = <<>>
    /\ stats_returned' = <<calculate_stats([markdown_content |-> markdown_given])>>
    /\ UNCHANGED <<envVars, runVars, textVars, basicVars, scanVars, concVars>>

StatsNext == CalculateStats

StatsSpec == StatsInit /\ [][StatsNext]_vars

\* ------------------------------------------------ the basic extractor alone
\* process_pdf_basic of either entry point, called on one document: a file
\* fitz cannot open, or up to MaxDocPages pages, each blank, holding text,
\* or failing to load.
MaxDocPages == 3
DocPageTexts == PageTexts \cup {Unreadable}
Documents ==
    {[name |-> FileName(1), corrupt |-> TRUE, pages |-> <<>>]}
        \cup {[name |-> FileName(1), corrupt |-> FALSE, pages |-> p] :
                    p \in SeqsUpTo(DocPageTexts, MaxDocPages)}

BasicInit ==
    /\ NoBatch /\ TextIdle /\ StatsIdle /\ ScanIdle /\ ConcIdle
    /\ extractor \in {"app", "vercel"}
    /\ document \in Documents
    /\ basic_returned = <<>>

\* result = process_pdf_basic(pdf_path, output_dir, config, update_progress)
ExtractBasic ==
    /\ basic_returned = <<>>
    /\ basic_returned' = <<IF extractor = "app" THEN app_process_pdf_basic(document)
                            ELSE vercel_process_pdf_basic(document)>>
    /\ UNCHANGED <<envVars, runVars, textVars, statsVars, scanVars, concVars, extractor, document>>

BasicNext == ExtractBasic

BasicSpec == BasicInit /\ [][BasicNext]_vars

\* ------------------------------------ files of one name, one after another
\* Up to MaxRuns uploaded files of one batch carry the same name a.pdf: the
\* loop of main() saves each at the same pdf_path and hands the same
\* file_output_dir to process_pdf_file.
MaxRuns == 2
ScanStem == Stem(FileName(1))
OutputPath(stem, suffix) == [stem |-> stem, suffix |-> suffix]

\* The files do_parse may leave under output_dir for a.pdf; which of them it
\* writes is the engine's business.
EngineFiles ==
    {OutputPath(ScanStem, ".md"), OutputPath("layout", ".md"),
     OutputPath(ScanStem, ".json"), OutputPath("content_list", ".json")}

\* A content is known by the uploaded file it was made for and by its form.
Content(k, form) == [of |-> k, form |-> form]

\* open(path, 'w') and write, for each path of new.
write_files(tree, new) ==
    [p \in DOMAIN tree \cup DOMAIN new |-> IF p \in DOMAIN new THEN new[p] ELSE tree[p]]

\* The orders in which os.walk may list a set of files.
RECURSIVE Listings(_)
Listings(S) ==
    IF S = {} THEN {<<>>}
    ELSE UNION {{<<x>> \o l : l \in Listings(S \ {x})} : x \in S}

SetMax(S) == CHOOSE x \in S : \A y \in S : x >= y

\* The for loops of _process_mineru_output: the variable is assigned at
\* every file with the suffix, so it ends as the last one listed; 0 for None.
walk_match(listing, suffix) ==
    LET at == {p \in 1..Len(listing) : listing[p].suffix = suffix}
    IN  IF at = {} THEN 0 ELSE SetMax(at)

\* MinerUProcessor._process_mineru_output over the files of the directory as
\* os.walk lists them, for uploaded file k; the paths 'markdown' and 'json'
\* are <<>> when the key is not set.
walk_mineru_output(tree, listing, k) ==
    LET md_at == walk_match(listing, ".md")
        js_at == walk_match(listing, ".json")
        md == IF md_at # 0 THEN tree[listing[md_at]] ELSE Content(k, "no_markdown")
    IN  [markdown_content |-> md,
         markdown |-> IF md_at # 0 THEN <<listing[md_at]>> ELSE <<>>,
         json_content |-> IF js_at # 0 THEN tree[listing[js_at]] ELSE Content(k, "no_json"),
         json |-> IF js_at # 0 THEN <<listing[js_at]>> ELSE <<>>,
         html_content |-> Content(md.of, "html"),
         html |-> <<OutputPath(ScanStem, ".html")>>,
         text_content |-> Content(md.of, "text"),
         text |-> <<OutputPath(ScanStem, ".txt")>>]

\* The files _process_mineru_output writes itself.
mineru_output_written(outputs) ==
    (OutputPath(ScanStem, ".html") :> outputs.html_content)
        @@ (OutputPath(ScanStem, ".txt") :> outputs.text_content)

\* The files and the outputs of _create_demo_result for uploaded file k.
demo_outputs(k) ==
    [markdown_content |-> Content(k, "markdown"), markdown |-> <<OutputPath(ScanStem, ".md")>>,
     json_content |-> Content(k, "json"), json |-> <<OutputPath(ScanStem, ".json")>>,
     html_content |-> Content(k, "html"), html |-> <<OutputPath(ScanStem, ".html")>>,
     text_content |-> Content(k, "text"), text |-> <<OutputPath(ScanStem, ".txt")>>]
demo_written(k) ==
    [p \in {OutputPath(ScanStem, x) : x \in {".md", ".json", ".html", ".txt"}} |->
        Content(k, CASE p.suffix = ".md" -> "markdown" [] p.suffix = ".json" -> "json"
                     [] p.suffix = ".html" -> "html" [] OTHER -> "text")]

\* The outputs of app.py's process_pdf_basic reading the file at pdf_path;
\* it writes no file.
basic_outputs(at_path) ==
    [markdown_content |-> Content(at_path, "markdown"), markdown |-> <<>>,
     json_content |-> Content(at_path, "json"), json |-> <<>>,
     html_content |-> Content(at_path, "html"), html |-> <<>>,
     text_content |-> Content(at_path, "text"), text |-> <<>>]

\* The successful result of one file, with what the call met on its way.
ScanResult(k, at_path, listing, outputs) ==
    [file |-> k, input_at_call |-> at_path, walked |-> listing, success |-> TRUE, outputs |-> outputs]

ScanInit ==
    /\ NoBatch /\ TextIdle /\ StatsIdle /\ BasicIdle /\ ConcIdle
    /\ scan_branch \in {"mineru", "demo", "basic"}
    /\ input_file = 0
    /\ output_tree = <<>>
    /\ scan_results = <<>>

\* One turn of the loop with the engine: the upload is saved over pdf_path,
\* do_parse reads it and leaves some files, _process_mineru_output walks the
\* directory and writes the HTML and the text.
ProcessWithEngine ==
    /\ scan_branch = "mineru"
    /\ Len(scan_results) < MaxRuns
    /\ \E k \in {Len(scan_results) + 1}, written \in SUBSET EngineFiles :
       \E parsed \in {write_files(output_tree,
                          [p \in written |->
                              Content(k, IF p.suffix = ".md" THEN "markdown" ELSE "json")])} :
       \E listing \in Listings(DOMAIN parsed) :
       \E outputs \in {walk_mineru_output(parsed, listing, k)} :
            /\ input_file' = k
            /\ output_tree' = write_files(parsed, mineru_output_written(outputs))
            /\ scan_results' = Append(scan_results, ScanResult(k, k, listing, outputs))
    /\ UNCHANGED <<envVars, runVars, textVars, statsVars, basicVars, concVars, scan_branch>>

\* One turn of the loop with the demo branch.
ProcessDemo ==
    /\ scan_branch = "demo"
    /\ Len(scan_results) < MaxRuns
    /\ \E k \in {Len(scan_results) + 1} :
            /\ input_file' = k
            /\ output_tree' = write_files(output_tree, demo_written(k))
            /\ scan_results' = Append(scan_results, ScanResult(k, k, <<>>, demo_outputs(k)))
    /\ UNCHANGED <<envVars, runVars, textVars, statsVars, basicVars, concVars, scan_branch>>

\* One turn of the loop with the basic extractor.
ProcessBasic ==
    /\ scan_branch = "basic"
    /\ Len(scan_results) < MaxRuns
    /\ \E k \in {Len(scan_results) + 1} :
            /\ input_file' = k
            /\ scan_results' = Append(scan_results, ScanResult(k, k, <<>>, basic_outputs(k)))
    /\ UNCHANGED <<envVars, runVars, textVars, statsVars, basicVars, concVars, scan_branch, output_tree>>

ScanNext ==
    \/ ProcessWithEngine
    \/ ProcessDemo
    \/ ProcessBasic

ScanSpec == ScanInit /\ [][ScanNext]_vars

\* ------------------------------------------------ two batches at one time
\* Two runs of main() on one machine, each a Streamlit session of its own,
\* interleaved at every call that touches the file system. Both upload
\* files named a.pdf.
Sessions == {1, 2}
TempNames == {"mineru_1", "mineru_2", "mineru_3"}

\* A mkdtemp that may hand out a name already in use.
mkdtemp_any_name(existing) == TempNames

\* tempfile.mkdtemp(prefix="mineru_"): the directory is created under a
\* name no existing entry has.
mkdtemp(existing) == TempNames \ existing

\* os.path.join(temp_dir, "input", uploaded_file.name) and
\* os.path.join(temp_dir, "output", stem)
pdf_path(temp_dir) == [dir |-> temp_dir, sub |-> "input", leaf |-> FileName(1)]
file_output_dir(temp_dir) == [dir |-> temp_dir, sub |-> "output", leaf |-> Stem(FileName(1))]
TempPath(temp_dir) == [dir |-> temp_dir, sub |-> "", leaf |-> ""]

\* One touch of the file system: who did what to which path, and whose the
\* path was at that moment (for a path that does not exist: the toucher's
\* own when it writes, nobody's, 0, when it reads).
Access(b, op, path, owner) == [by |-> b, op |-> op, path |-> path, owner |-> owner]
OwnerOfFile(path, b) == IF path \in DOMAIN fs_files THEN fs_files[path] ELSE b

ConcInit ==
    /\ NoBatch /\ TextIdle /\ StatsIdle /\ BasicIdle /\ ScanIdle
    /\ ConcIdle

\* input_dir, output_dir = create_temp_dirs()
BatchCreateTempDirs(b) ==
    /\ batch_pc[b] = "idle"
    /\ \E d \in mkdtemp(DOMAIN fs_dirs) :
        /\ accesses' = accesses \cup
                {Access(b, "create", TempPath(d), IF d \in DOMAIN fs_dirs THEN fs_dirs[d] ELSE b)}
        /\ fs_dirs' = (d :> b) @@ fs_dirs
        /\ batch_dir' = [batch_dir EXCEPT ![b] = d]
    /\ batch_pc' = [batch_pc EXCEPT ![b] = "loop"]
    /\ UNCHANGED <<envVars, runVars, textVars, statsVars, basicVars, scanVars, fs_files, batch_saved>>

\* with open(pdf_path, 'wb') as f: f.write(uploaded_file.getvalue())
BatchSave(b) ==
    /\ batch_pc[b] = "loop"
    /\ batch_saved[b] < MaxFiles
    /\ accesses' = accesses \cup
            {Access(b, "write", pdf_path(batch_dir[b]), OwnerOfFile(pdf_path(batch_dir[b]), b))}
    /\ fs_files' = (pdf_path(batch_dir[b]) :> b) @@ fs_files
    /\ batch_pc' = [batch_pc EXCEPT ![b] = "saved"]
    /\ UNCHANGED <<envVars, runVars, textVars, statsVars, basicVars, scanVars, fs_dirs, batch_dir, batch_saved>>

\* result = process_pdf_file(pdf_path, file_output_dir, ...): the file at
\* pdf_path is read and, except by the basic extractor, files are written
\* under file_output_dir.
BatchProcess(b) ==
    /\ batch_pc[b] = "saved"
    /\ \E writes_output \in BOOLEAN :
        /\ accesses' = accesses
                \cup {Access(b, "read", pdf_path(batch_dir[b]), OwnerOfFile(pdf_path(batch_dir[b]), 0))}
                \cup (IF writes_output
                      THEN {Access(b, "write", file_output_dir(batch_dir[b]),
                                   OwnerOfFile(file_output_dir(batch_dir[b]), b))}
                      ELSE {})
        /\ fs_files' = IF writes_output
                       THEN (file_output_dir(batch_dir[b]) :> b) @@ fs_files
                       ELSE fs_files
    /\ batch_pc' = [batch_pc EXCEPT ![b] = "loop"]
    /\ batch_saved' = [batch_saved EXCEPT ![b] = @ + 1]
    /\ UNCHANGED <<envVars, runVars, textVars, statsVars, basicVars, scanVars, fs_dirs, batch_dir>>

\* finally: cleanup_temp_dirs(temp_base_dir), after the last uploaded file:
\* when the directory exists and rmtree does not fail, the directory and
\* everything under it are removed.
BatchCleanup(b) ==
    /\ batch_pc[b] = "loop"
    /\ batch_saved[b] >= 1
    /\ \E rmtree_ok \in BOOLEAN :
        IF batch_dir[b] \in DOMAIN fs_dirs /\ rmtree_ok
        THEN \E under \in {{p \in DOMAIN fs_files : p.dir = batch_dir[b]}} :
                /\ accesses' = accesses
                        \cup {Access(b, "delete", TempPath(batch_dir[b]), fs_dirs[batch_dir[b]])}
                        \cup {Access(b, "delete", p, fs_files[p]) : p \in under}
                /\ fs_dirs' = [d \in DOMAIN fs_dirs \ {batch_dir[b]} |-> fs_dirs[d]]
                /\ fs_files' = [p \in DOMAIN fs_files \ under |-> fs_files[p]]
        ELSE UNCHANGED <<fs_dirs, fs_files, accesses>>
    /\ batch_pc' = [batch_pc EXCEPT ![b] = "done"]
    /\ UNCHANGED <<envVars, runVars, textVars, statsVars, basicVars, scanVars, batch_dir, batch_saved>>

ConcNext ==
    \/ \E b \in Sessions : BatchCreateTempDirs(b)
    \/ \E b \in Sessions : BatchSave(b)
    \/ \E b \in Sessions : BatchProcess(b)
    \/ \E b \in Sessions : BatchCleanup(b)

ConcurrentSpec == ConcInit /\ [][ConcNext]_vars

\* ------------------------------------------------------------ the claims
\* What the claims speak of.
Processed == 1..Len(calls)
NumFiles == Len(uploaded_files)
Corrupted == {k \in 1..NumFiles : uploaded_files[k].corrupt}
HandlerEnded == pc \in {"returned", "raised"}
EngineBranch == entry = "app" /\ MINERU_AVAILABLE /\ mineru_available
DemoBranch == entry = "app" /\ MINERU_AVAILABLE /\ ~mineru_available
ApiMode == entry = "vercel" /\ processing_mode = "api"
EngineFailed(j) == calls[j].eng \in {"raises", "badjson"}
ApiAnswered(j) ==
    /\ ApiMode /\ MINERU_API_URL
    /\ ~calls[j].api.transport_error /\ calls[j].api.status_code = 200
    /\ calls[j].api.body # "not_json"
ApiUnavailable(j) ==
    \/ ~MINERU_API_URL
    \/ calls[j].api.transport_error
    \/ calls[j].api.status_code # 200
LastProgress(j) == calls[j].progress[Len(calls[j].progress)]
\* The engine and the remote service fail on the corrupted files and on no other.
WorldFailsOnCorruptedOnly ==
    \A j \in Processed :
        /\ EngineBranch => (EngineFailed(j) <=> uploaded_files[j].corrupt)
        /\ ApiAnswered(j) => (calls[j].api.body = "failure" <=> uploaded_files[j].corrupt)

C3_EngineFailureIsNotDowngraded ==
    \A j \in Processed :
        (EngineBranch /\ EngineFailed(j)) =>
            /\ ~results[j].success
            /\ calls[j].ran = <<"mineru">>

\* C3, a run where it matters: the engine wrote a JSON file json.load rejects.
C3_Witness ==
    \E j \in Processed : EngineBranch /\ calls[j].eng = "badjson" /\ ~results[j].success

\* C4 (amended): for each file app.py's process_pdf_file handles, exactly one
\* of the three branches runs; the demo branch runs if and only if the module
\* mineru_processor could be imported and magic_pdf could not; and a successful
\* result's method names the branch that ran.
C4_OneBranchPerFile ==
    entry = "app" =>
        \A j \in Processed :
            /\ Len(calls[j].ran) = 1
            /\ calls[j].ran[1] \in {"mineru", "demo", "basic"}
            /\ calls[j].ran[1] = "demo" <=> (MINERU_AVAILABLE /\ ~magic_pdf_importable)
            /\ results[j].success => results[j].method = calls[j].ran[1]

\* C4, a run where it matters: the engine is missing and the demo branch ran.
C4_Witness ==
    /\ entry = "app" /\ ~magic_pdf_importable
    /\ \E j \in Processed : results[j].success /\ results[j].method = "demo"

\* C4 as stated: the demo branch runs if and only if the engine could not be
\* imported.
C4_DemoIffEngineMissing ==
    entry = "app" =>
        \A j \in Processed :
            /\ Len(calls[j].ran) = 1
            /\ calls[j].ran[1] = "demo" <=> ~magic_pdf_importable
            /\ results[j].success => results[j].method = calls[j].ran[1]

\* C5 as stated: in app.py, whenever magic_pdf is unavailable, each file is
\* processed by the basic extractor, and its text is the text of the upload.
C5_FallbackIsPlainTextExtraction ==
    (entry = "app" /\ ~magic_pdf_importable) =>
        \A j \in Processed :
            /\ calls[j].ran = <<"basic">>
            /\ results[j].success =>
                results[j].outputs.text_content = full_text(uploaded_files[j].pages)

\* C6 as stated: on every path the fractions passed to the progress callback
\* while one file is processed never decrease and lie in [0, 1].
C6_ProgressNeverDecreases ==
    \A j \in Processed :
        LET p == calls[j].progress
        IN  /\ \A a \in 1..Len(p) :
                FracLeq(FracZero, p[a].fraction) /\ FracLeq(p[a].fraction, FracOne)
            /\ \A a \in 1..Len(p), b \in 1..Len(p) :
                a < b => FracLeq(p[a].fraction, p[b].fraction)

\* C7 as stated: whenever a file's result has success = FALSE, the last
\* progress call for that file has fraction 1.0 and a failure message.
C7_FailureEndsWithFailureMessage ==
    \A j \in Processed :
        ~results[j].success =>
            /\ calls[j].progress # <<>>
            /\ FracEq(LastProgress(j).fraction, FracOne)
            /\ IsFailureMessage(LastProgress(j).message)

\* C8: in API mode, when no base URL is configured, or the POST raises, or the
\* answer's status is not 200, call_mineru_api returns None, the basic branch
\* then runs on the same file, and the file's result is the basic branch's: it
\* fails only if the file itself cannot be opened.
C8_ApiUnavailableFallsBackToBasic ==
    ApiMode =>
        \A j \in Processed :
            ApiUnavailable(j) =>
                /\ calls[j].api_none
                /\ calls[j].ran[Len(calls[j].ran)] = "basic"
                /\ results[j].success <=> ~uploaded_files[j].corrupt
                /\ ~results[j].success => results[j].error = <<"process_error", "cannot_open">>

\* C8, a run where it matters: the service could not be reached and the file
\* succeeded.
C8_Witness ==
    /\ ApiMode /\ MINERU_API_URL
    /\ \E j \in Processed :
        /\ calls[j].api.transport_error
        /\ results[j].success

\* C9: with the remote-API branch selected and the endpoint answering 500, the
\* file's result has the success, outputs, stats and method the basic branch
\* alone gives for that file.
C9_Http500EqualsBasicAlone ==
    (ApiMode /\ MINERU_API_URL) =>
        \A j \in Processed :
            (~calls[j].api.transport_error /\ calls[j].api.status_code = 500) =>
                LET alone == vercel_process_pdf_basic(uploaded_files[j]).ret
                IN  \A key \in {"success", "outputs", "stats", "method"} :
                        /\ key \in DOMAIN results[j] <=> key \in DOMAIN alone
                        /\ key \in DOMAIN alone => results[j][key] = alone[key]

\* C9, a run where it matters: a 500 for a file with a page of text.
C9_Witness ==
    /\ ApiMode /\ MINERU_API_URL
    /\ \E j \in Processed :
        /\ calls[j].api.status_code = 500
        /\ results[j].success /\ results[j].method = "basic"
        /\ results[j].stats.text_blocks = 1

\* C10 (amended): in streamlit_app_vercel.py a file is sent to the remote
\* /process endpoint, before any local processing, exactly when MINERU_API_URL
\* is set and the processing mode is "api"; a Vercel deployment forces the
\* mode "basic", and in that mode nothing is sent although the variable is set.
C10_SentIffApiModeAndUrl ==
    entry = "vercel" =>
        /\ IS_VERCEL => processing_mode = "basic"
        /\ \A j \in Processed :
            /\ calls[j].posts = (IF MINERU_API_URL /\ processing_mode = "api" THEN 1 ELSE 0)
            /\ calls[j].posts = 1 => calls[j].ran[1] = "api"

\* C10, a run where it matters: the variable is set, the mode is "api" and the
\* file was sent.
C10_Witness ==
    /\ entry = "vercel" /\ MINERU_API_URL /\ processing_mode = "api"
    /\ \E j \in Processed : calls[j].posts = 1 /\ calls[j].ran[1] = "api"

\* C10 as stated: whenever MINERU_API_URL is set, each file is sent to the
\* remote endpoint first, in every deployment mode and processing mode.
C10_SentWheneverUrlSet ==
    (entry = "vercel" /\ MINERU_API_URL) =>
        \A j \in Processed : calls[j].posts = 1 /\ calls[j].ran[1] = "api"

\* A result made by this repository's code, not taken from the remote service.
LocalResult(j) == calls[j].ran[Len(calls[j].ran)] \in {"mineru", "demo", "basic"}

\* C11 as stated: every successful result of the engine, demo and basic
\* branches has a markdown_content that is present and not empty, blank and
\* empty documents included.
C11_MarkdownNeverEmpty ==
    \A j \in 1..Len(results) :
        (results[j].success /\ LocalResult(j)) =>
            /\ "markdown_content" \in DOMAIN results[j].outputs
            /\ results[j].outputs.markdown_content # <<>>

\* The result the loop has just appended, if any. A result is never changed
\* once appended (C17), so a property of content that holds at this moment
\* holds of every result of every run.
JustAppended == IF pc = "loop" /\ results # <<>> THEN {Len(results)} ELSE {}

\* The first and the last position of a tag in an HTML text, 0 when absent.
FirstIndex(html, tag) ==
    LET at == {k \in 1..Len(html) : html[k] = tag}
    IN  IF at = {} THEN 0 ELSE SetMin(at)
LastIndex(html, tag) ==
    LET at == {k \in 1..Len(html) : html[k] = tag}
    IN  IF at = {} THEN 0 ELSE CHOOSE k \in at : \A m \in at : m <= k
\* <html> ... <body> ... </body> ... </html>, in this order.
HtmlWrapped(html) ==
    \E a \in {FirstIndex(html, "<html>")}, b \in {FirstIndex(html, "<body>")},
       c \in {LastIndex(html, "</body>")}, d \in {LastIndex(html, "</html>")} :
        0 < a /\ a < b /\ b < c /\ c < d
ContentKeys == {"markdown_content", "html_content", "text_content", "json_content"}

C13_TotalPagesIsPageCount ==
    \A j \in 1..Len(results) :
        (results[j].success /\ results[j].method = "basic" /\ LocalResult(j)) =>
            /\ results[j].stats.total_pages = Len(uploaded_files[j].pages)
            /\ results[j].outputs.json_content.document.pages = Len(uploaded_files[j].pages)

\* C13, a run where it matters: a document whose only page is blank, counted
\* as a page though it gave no text block.
C13_Witness ==
    \E j \in 1..Len(results) :
        /\ results[j].success /\ results[j].method = "basic"
        /\ Len(uploaded_files[j].pages) = MaxPages
        /\ Strip(uploaded_files[j].pages[MaxPages]) = <<>>
        /\ results[j].stats.total_pages = MaxPages
        /\ results[j].stats.text_blocks < MaxPages

\* C14 as stated: _markdown_to_text applied to its own output returns that
\* output unchanged, for every input.
C14_MarkdownToTextIdempotent ==
    Len(text_returned) = 2 => text_returned[2] = text_returned[1]

\* C15: what the demo branch returns for a file does not depend on the
\* file's content: its Markdown, HTML, text and stats are those the branch
\* returns under the same name for a file that cannot even be opened (every
\* content occurs in some batch, so all contents give one result), and the
\* stats are 1 page, 4 text blocks, 1 table and 3 formulas.
C15_DemoIgnoresContent ==
    DemoBranch =>
        \A j \in JustAppended :
            /\ results[j].success
            /\ results[j].stats = [total_pages |-> 1, text_blocks |-> 4, tables |-> 1, formulas |-> 3]
            /\ \E other \in {create_demo_result(
                                [name |-> uploaded_files[j].name,
                                 corrupt |-> TRUE, pages |-> <<>>]).ret} :
                    /\ results[j].outputs.markdown_content = other.outputs.markdown_content
                    /\ results[j].outputs.html_content = other.outputs.html_content
                    /\ results[j].outputs.text_content = other.outputs.text_content
                    /\ results[j].stats = other.stats

\* C15, a run where it matters: the demo branch succeeded on a corrupted file
\* and on a file with a page of text, in one batch.
C15_Witness ==
    /\ DemoBranch /\ Len(results) = 2
    /\ uploaded_files[1].corrupt /\ results[1].success
    /\ ~uploaded_files[2].corrupt /\ uploaded_files[2].pages # <<>> /\ results[2].success
    /\ results[1].stats = results[2].stats

\* C16 as stated: in app.py a batch over the deployment's ceiling is rejected
\* before a workspace is made and before any file is processed, and in
\* neither entry point is a file of such a batch ever processed.
C16_OversizeBatchNeverProcessed ==
    total_size > max_size =>
        /\ entry = "app" => (pc \in {"button", "rejected"} /\ ~temp_dir_exists)
        /\ calls = <<>>

\* C17: the files are processed one at a time in upload order. A processing
\* call is made for file j only when the results of the j - 1 files before it
\* have been appended; each result carries the name of the file at its own
\* position and is what the processing call returned for that file; the
\* results shown after the loop are one per uploaded file; and a step changes
\* results only by appending one result at the end.
C17_OneAtATimeInUploadOrder ==
    /\ [](/\ Len(results) <= Len(calls) /\ Len(calls) <= Len(results) + 1
          /\ Len(calls) <= Len(uploaded_files)
          /\ pc = "loop" => (i = Len(results) + 1 /\ Len(calls) = Len(results))
          /\ pc = "returned" => Len(results) = Len(uploaded_files)
          /\ \A j \in 1..Len(results) : results[j].file_name = uploaded_files[j].name
          /\ \A j \in JustAppended :
                results[j] = ("file_name" :> uploaded_files[j].name)
                                @@ process_file(uploaded_files[j], calls[j].eng, calls[j].api).ret)
    /\ [][\/ results' = results
          \/ /\ Len(results') = Len(results) + 1
             /\ SubSeq(results', 1, Len(results)) = results
             /\ Len(calls') = Len(results')]_vars

\* C17, a run where it matters: a batch of two files ran to the end, the first
\* file failed and the second succeeded, each result at its file's position.
C17_Witness ==
    /\ pc = "returned" /\ Len(uploaded_files) = 2 /\ Len(results) = 2
    /\ uploaded_files[1].corrupt /\ ~results[1].success
    /\ ~uploaded_files[2].corrupt /\ results[2].success
    /\ results[1].file_name = FileName(1) /\ results[2].file_name = FileName(2)

\* C18 as stated: once a batch has run to the end, every file whose result
\* is successful has a preview rendered and a download offered, however many
\* files succeeded or failed.
C18_EverySuccessRenderedAndOffered ==
    pc = "returned" =>
        \A j \in 1..Len(results) :
            results[j].success =>
                /\ \E p \in display.previews : p.result = j
                /\ \E k \in 1..Len(display.downloads) : display.downloads[k].result = j

\* C19 as stated: every download offered is named {stem}.{ext}, the stem
\* being that of the uploaded file whose result is downloaded and the
\* extension one of md, html, txt, json.
C19_DownloadNamedAfterItsFile ==
    \A k \in 1..Len(display.downloads) :
        /\ display.downloads[k].file_name.stem
                = Stem(uploaded_files[display.downloads[k].result].name)
        /\ display.downloads[k].file_name.ext \in {"md", "html", "txt", "json"}

\* C20 as stated: no exception raised while one file is processed leaves the
\* processing call, and every failed result holds both an 'error' and a
\* 'traceback', in both entry points and in every branch.
C20_FailedResultHasErrorAndTraceback ==
    /\ Len(calls) = Len(results)
    /\ \A j \in 1..Len(results) :
        (~results[j].success /\ LocalResult(j)) =>
            {"error", "traceback"} \subseteq DOMAIN results[j]

\* C23 as stated: the workspace exists before the first file is saved or
\* processed, and cleanup_temp_dirs has been called exactly once for every
\* attempt to create a workspace by the time the handler is left, whether
\* it returned or raised, a failure inside create_temp_dirs included.
C23_CleanupOncePerCreationAttempt ==
    /\ pc = "loop" => (temp_dir_exists /\ cleanup_calls = 0)
    /\ calls # <<>> => (temp_dir_exists \/ cleanup_calls = 1)
    /\ HandlerEnded => cleanup_calls = 1

InnerNewlineRuns(t, n) ==
    {r \in (1..Len(t)) \X (1..Len(t)) :
        /\ r[2] - r[1] + 1 >= n
        /\ \A k \in r[1]..r[2] : t[k] = "\n"
        /\ r[1] > 1 /\ t[r[1] - 1] # "\n"
        /\ r[2] < Len(t) /\ t[r[2] + 1] # "\n"
        /\ \E k \in 1..(r[1] - 1) : t[k] = "a"
        /\ \E k \in (r[2] + 1)..Len(t) : t[k] = "a"}
HasBlankLine(t) == \E k \in 1..(Len(t) - 1) : t[k] = "\n" /\ t[k + 1] = "\n"

\* C26 as stated: the text _markdown_to_text returns never holds three line
\* ends in a row and has no whitespace at either end, and where the input
\* had three or more empty lines between two pieces of text the output has
\* one blank line there.
C26_BlankRunsBecomeOneBlankLine ==
    text_returned # <<>> =>
        /\ \A k \in 1..(Len(text_returned[1]) - 2) :
              ~(text_returned[1][k] = "\n" /\ text_returned[1][k + 1] = "\n"
                    /\ text_returned[1][k + 2] = "\n")
        /\ Strip(text_returned[1]) = text_returned[1]
        /\ InnerNewlineRuns(markdown_given, 4) # {} => HasBlankLine(text_returned[1])

\* What C27 counts in a Markdown text, read off the text itself: the "$"
\* characters, the places where "|---" starts, and the pieces of text that a
\* blank line (two adjacent line ends) separates.
Dollars(md) == Cardinality({k \in 1..Len(md) : md[k] = "$"})
Bars(md) == Cardinality({k \in 1..Len(md) : md[k] = "|"})
RuleStarts(md) == Cardinality({k \in 1..Len(md) : StartsWith(md, k, <<"|", "-", "-", "-">>)})
Inked(md) == {k \in 1..Len(md) : md[k] \notin Whitespace}
SeparatedBlocks(md) ==
    IF Inked(md) = {} THEN 0
    ELSE 1 + Cardinality(
            {k \in Inked(md) :
                \E n \in Inked(md) :
                    /\ k < n
                    /\ \A m \in (k + 1)..(n - 1) : m \notin Inked(md)
                    /\ \E m \in (k + 1)..(n - 2) : md[m] = "\n" /\ md[m + 1] = "\n"})

\* C27: for the Markdown of an engine run, _calculate_stats returns
\* formulas = floor(number of "$" / 2); tables = 0 when there is no "|",
\* else the number of "|---" or 1 when there is none; text_blocks = the
\* number of non-blank pieces separated by a blank line; total_pages = 1.
C27_StatsAreTheHeuristics ==
    stats_returned # <<>> =>
        /\ stats_returned[1].total_pages = 1
        /\ 2 * stats_returned[1].formulas <= Dollars(markdown_given)
        /\ Dollars(markdown_given) <= 2 * stats_returned[1].formulas + 1
        /\ stats_returned[1].tables =
                (IF Bars(markdown_given) = 0 THEN 0
                 ELSE IF RuleStarts(markdown_given) = 0 THEN 1 ELSE RuleStarts(markdown_given))
        /\ stats_returned[1].text_blocks = SeparatedBlocks(markdown_given)

\* C27, a text where it matters: three "$" counted as one formula, a "|"
\* without any "|---" counted as one table, and two blocks of text.
C27_Witness ==
    /\ stats_returned # <<>>
    /\ Dollars(markdown_given) = 3 /\ stats_returned[1].formulas = 1
    /\ Bars(markdown_given) > 0 /\ RuleStarts(markdown_given) = 0 /\ stats_returned[1].tables = 1
    /\ stats_returned[1].text_blocks = 2

\* The pages of a document whose text is not blank; a page that cannot be
\* read has no text.
NonBlankPages(pages) == {k \in 1..Len(pages) : pages[k] # Unreadable /\ Strip(pages[k]) # <<>>}
\* The call of the extractor returned a successful result.
BasicSucceeded ==
    /\ basic_returned # <<>>
    /\ ~basic_returned[1].raised
    /\ basic_returned[1].ret.success

\* C21 as stated: once the PDF has been opened the basic extractor returns
\* a successful result; a page that fails to load or to give its text
\* counts as empty text, adds no text block and does not fail the file.
C21_UnreadablePageIsEmptyText ==
    (basic_returned # <<>> /\ ~document.corrupt) =>
        /\ BasicSucceeded
        /\ basic_returned[1].ret.stats.text_blocks = Cardinality(NonBlankPages(document.pages))

\* Where the page headings of a Markdown text start.
HeadingStarts(md) == {p \in 1..Len(md) : StartsWith(md, p, <<"#", " ", "page", " ">>)}

\* C29: in a successful result of the basic extractor for a PDF of P pages
\* the Markdown holds exactly one heading for each page whose text is not
\* blank and no other heading, the headings carry the pages' own numbers in
\* increasing order, text_blocks is the number of those pages, between 0
\* and total_pages = P, and the Markdown is empty exactly when text_blocks
\* is 0.
C29_OneHeadingPerNonBlankPage ==
    BasicSucceeded =>
        \E md \in {basic_returned[1].ret.outputs.markdown_content},
           stats \in {basic_returned[1].ret.stats},
           P \in {Len(document.pages)} :
            /\ \A k \in 1..P :
                  Cardinality({p \in HeadingStarts(md) : md[p + 4] = ToString(k)})
                      = (IF k \in NonBlankPages(document.pages) THEN 1 ELSE 0)
            /\ Cardinality(HeadingStarts(md)) = Cardinality(NonBlankPages(document.pages))
            /\ \A p, q \in HeadingStarts(md) : \A k, n \in 1..P :
                  (p < q /\ md[p + 4] = ToString(k) /\ md[q + 4] = ToString(n)) => k < n
            /\ stats.text_blocks = Cardinality(NonBlankPages(document.pages))
            /\ 0 <= stats.text_blocks /\ stats.text_blocks <= stats.total_pages
            /\ stats.total_pages = P
            /\ (md = <<>>) <=> (stats.text_blocks = 0)

\* C29, a document where it matters: the first page is blank and later
\* pages hold text, so the first heading is numbered 2.
C29_Witness ==
    /\ BasicSucceeded
    /\ Len(document.pages) = MaxDocPages
    /\ 1 \notin NonBlankPages(document.pages)
    /\ 2 \in NonBlankPages(document.pages)
    /\ basic_returned[1].ret.outputs.markdown_content[5] = ToString(2)
    /\ basic_returned[1].ret.stats.text_blocks < basic_returned[1].ret.stats.total_pages

\* C24 as stated: when the directory the engine wrote into holds several
\* .md files, or several .json files, the one _process_mineru_output uses
\* is the first one the walk met; a later match does not replace it.
C24_FirstMatchIsUsed ==
    \A j \in 1..Len(scan_results) :
        scan_branch = "mineru" =>
            \A suffix \in {".md", ".json"} :
                \E at \in {{p \in 1..Len(scan_results[j].walked) :
                                scan_results[j].walked[p].suffix = suffix}} :
                    at # {} =>
                        (IF suffix = ".md" THEN scan_results[j].outputs.markdown
                                           ELSE scan_results[j].outputs.json)
                            = <<scan_results[j].walked[SetMin(at)]>>

\* C25 as stated: once a run of the engine or of the demo branch for the
\* stem S has succeeded, the output directory holds S.md, S.html, S.txt and
\* S.json, each with the rendition the result carries.
C25_FourFilesHoldTheRenditions ==
    (scan_branch \in {"mineru", "demo"} /\ scan_results # <<>>) =>
        \E r \in {scan_results[Len(scan_results)]} :
            /\ r.success
            /\ \A p \in {OutputPath(ScanStem, x) : x \in {".md", ".html", ".txt", ".json"}} :
                    /\ p \in DOMAIN output_tree
                    /\ output_tree[p] =
                          (CASE p.suffix = ".md" -> r.outputs.markdown_content
                             [] p.suffix = ".html" -> r.outputs.html_content
                             [] p.suffix = ".txt" -> r.outputs.text_content
                             [] OTHER -> r.outputs.json_content)

\* C30 as stated: for files of one name, processed one after another over
\* the same input path and output directory, the bytes at the input path
\* when file i is processed are file i's own, and every rendition of file
\* i's result was made for file i, not left behind by an earlier file, in
\* the engine's directory scan as in the other branches.
C30_ResultComesFromItsOwnFile ==
    \A j \in 1..Len(scan_results) :
        /\ scan_results[j].input_at_call = scan_results[j].file
        /\ \A c \in {scan_results[j].outputs.markdown_content, scan_results[j].outputs.json_content,
                      scan_results[j].outputs.html_content, scan_results[j].outputs.text_content} :
                c.of = scan_results[j].file

\* A batch holds a workspace from create_temp_dirs until its cleanup.
HoldsWorkspace(b) == batch_pc[b] \in {"loop", "saved"}

\* C22: two batches running at the same time hold different temporary
\* workspaces; every path a batch reads, overwrites or deletes is its own,
\* never one the other batch made; and until a batch cleans up, its
\* workspace and the file it saved are still there, whatever the other
\* batch has cleaned up.
C22_ConcurrentBatchesAreIsolated ==
    /\ (HoldsWorkspace(1) /\ HoldsWorkspace(2)) => batch_dir[1] # batch_dir[2]
    /\ \A a \in accesses : a.owner = a.by
    /\ \A b \in Sessions :
            HoldsWorkspace(b) =>
                /\ batch_dir[b] \in DOMAIN fs_dirs
                /\ fs_dirs[batch_dir[b]] = b
                /\ batch_pc[b] = "saved" =>
                        /\ pdf_path(batch_dir[b]) \in DOMAIN fs_files
                        /\ fs_files[pdf_path(batch_dir[b])] = b

\* C22, the two batches inside their loops at once: each has processed a
\* file named a.pdf and has just saved another of the same name.
C22_Witness ==
    /\ batch_pc = <<"saved", "saved">>
    /\ batch_saved = <<1, 1>>
    /\ \A b \in Sessions :
            Access(b, "read", pdf_path(batch_dir[b]), b) \in accesses
====
